---- MODULE Spec2Model ----
(***************************************************************************)
(* Model of linera-views/src/common.rs: the prefix-bound arithmetic        *)
(* (get_upper_bound, get_interval), the write batch (WriteOperation,       *)
(* Batch and its append methods) and Batch::simplify.                      *)
(*                                                                         *)
(* Byte strings (Vec<u8>) are sequences of naturals below 256, ordered as  *)
(* Rust orders vectors: byte-wise unsigned lexicographic order.            *)
(***************************************************************************)
EXTENDS Naturals, Sequences, FiniteSets

\* ------------------------------------------------------------------ bounds

\* Longest batch built from arbitrary operations over Keys and Values.
MaxOps == 3

\* Longest batch built from operations over the nested keys only
\* (DeletePrefix and Put over a chain of prefixes, one value).
MaxNestedOps == 5

\* How many times in a row simplify is applied to one batch.
MaxPasses == 2

\* Keys and prefixes the operations are drawn from: the empty string, an
\* all-0xFF string, strings ending in 0xFF, siblings and nested prefixes.
Keys == {<<>>, <<1>>, <<255>>, <<1, 1>>, <<1, 255>>, <<255, 255>>}

\* A chain of nested prefixes: each one is a prefix of the next.
NestedKeys == {<<>>, <<1>>, <<1, 255>>}

\* Values of Put operations (the empty value is a value like any other).
Values == {<<>>, <<7>>}

NestedValue == <<7>>

\* A value no operation of a batch writes: what a prior store holds.
OldValue == <<9>>

\* ------------------------------------------------------- byte strings

\* u8::MAX
u8_MAX == 255

\* Ord for Vec<u8>: a < b in byte-wise lexicographic order.
LexLess(a, b) ==
    \E i \in 1..Len(b) :
        /\ i <= Len(a) + 1
        /\ \A j \in 1..(i - 1) : a[j] = b[j]
        /\ \/ i = Len(a) + 1
           \/ (i <= Len(a) /\ a[i] < b[i])

\* slice::starts_with: p is a prefix of k.
StartsWith(k, p) ==
    /\ Len(p) <= Len(k)
    /\ \A j \in 1..Len(p) : k[j] = p[j]

\* std::ops::Bound
Unbounded == [kind |-> "Unbounded", key |-> <<>>]
Excluded(key) == [kind |-> "Excluded", key |-> key]
Included(key) == [kind |-> "Included", key |-> key]

\* The loop of get_upper_bound: positions i, i-1, ..., 1 are still to be
\* examined (for i in (0..len).rev(), 1-based here).
RECURSIVE upper_bound_loop(_, _)
upper_bound_loop(key_prefix, i) ==
    IF i = 0
    THEN Unbounded
    ELSE IF key_prefix[i] < u8_MAX
         THEN Excluded(SubSeq(key_prefix, 1, i - 1) \o <<key_prefix[i] + 1>>)
         ELSE upper_bound_loop(key_prefix, i - 1)

\* A get_upper_bound that increments the byte but keeps the bytes after it.
RECURSIVE upper_bound_loop_keep_tail(_, _)
upper_bound_loop_keep_tail(key_prefix, i) ==
    IF i = 0
    THEN Unbounded
    ELSE IF key_prefix[i] < u8_MAX
         THEN Excluded([key_prefix EXCEPT ![i] = @ + 1])
         ELSE upper_bound_loop_keep_tail(key_prefix, i - 1)

get_upper_bound_keep_tail(key_prefix) ==
    upper_bound_loop_keep_tail(key_prefix, Len(key_prefix))

\* A get_upper_bound that increments the last byte, wrapping, whatever it is.
get_upper_bound_last_byte(key_prefix) ==
    IF key_prefix = <<>>
    THEN Unbounded
    ELSE Excluded([key_prefix EXCEPT ![Len(key_prefix)] = (@ + 1) % (u8_MAX + 1)])

get_upper_bound(key_prefix) == upper_bound_loop(key_prefix, Len(key_prefix))

get_interval(key_prefix) ==
    [lower |-> Included(key_prefix), upper |-> get_upper_bound(key_prefix)]

\* Whether a key lies in a range (lower, upper) of Bounds, as
\* BTreeMap::range and BTreeSet::range select it.
InRange(k, interval) ==
    /\ CASE interval.lower.kind = "Included" -> ~LexLess(k, interval.lower.key)
         [] interval.lower.kind = "Excluded" -> LexLess(interval.lower.key, k)
         [] OTHER -> TRUE
    /\ CASE interval.upper.kind = "Included" -> ~LexLess(interval.upper.key, k)
         [] interval.upper.kind = "Excluded" -> LexLess(k, interval.upper.key)
         [] OTHER -> TRUE

\* ------------------------------------------------------- write operations

\* enum WriteOperation
Delete(key) == [type |-> "Delete", key |-> key]
DeletePrefix(key_prefix) == [type |-> "DeletePrefix", key_prefix |-> key_prefix]
Put(key, value) == [type |-> "Put", key |-> key, value |-> value]

\* Option<Vec<u8>>, the values of map_delete_insert.
None == <<>>
Some(value) == <<value>>

\* BTreeMap<Vec<u8>, Option<Vec<u8>>> is held as the sequence of its entries
\* <<key, val>> in ascending order of key, and BTreeSet<Vec<u8>> as the
\* sequence of its elements in ascending order: the order of iteration.

\* A map that keeps every entry inserted, as a Vec of pairs would.
map_insert_push(map, key, val) == Append(map, <<key, val>>)

\* BTreeMap::insert: the entry of an equal key is replaced.
map_insert(map, key, val) ==
    SelectSeq(map, LAMBDA e : LexLess(e[1], key))
        \o << <<key, val>> >>
        \o SelectSeq(map, LAMBDA e : LexLess(key, e[1]))

\* BTreeMap::remove
map_remove(map, key) == SelectSeq(map, LAMBDA e : e[1] # key)

\* BTreeMap::range(interval).map(|x| x.0.to_vec()).collect()
map_range_keys(map, interval) ==
    LET sel == SelectSeq(map, LAMBDA e : InRange(e[1], interval))
    IN  [i \in 1..Len(sel) |-> sel[i][1]]

\* A set that keeps its elements in the order of insertion.
set_insert_unsorted(set, key) == SelectSeq(set, LAMBDA x : x # key) \o <<key>>

\* BTreeSet::insert
set_insert(set, key) ==
    SelectSeq(set, LAMBDA x : LexLess(x, key))
        \o <<key>>
        \o SelectSeq(set, LAMBDA x : LexLess(key, x))

\* BTreeSet::remove
set_remove(set, key) == SelectSeq(set, LAMBDA x : x # key)

\* BTreeSet::range(interval).map(|x| x.to_vec()).collect()
set_range(set, interval) == SelectSeq(set, LAMBDA x : InRange(x, interval))

\* for key in key_list { map_delete_insert.remove(&key); }
RECURSIVE map_remove_list(_, _)
map_remove_list(map, key_list) ==
    IF key_list = <<>>
    THEN map
    ELSE map_remove_list(map_remove(map, Head(key_list)), Tail(key_list))

\* for key_prefix in key_prefix_list { set_key_prefix.remove(&key_prefix); }
RECURSIVE set_remove_list(_, _)
set_remove_list(set, key_prefix_list) ==
    IF key_prefix_list = <<>>
    THEN set
    ELSE set_remove_list(set_remove(set, Head(key_prefix_list)), Tail(key_prefix_list))

\* A simplify_step whose DeletePrefix leaves map_delete_insert alone.
simplify_step_keep_points(st, op) ==
    CASE op.type = "Delete" ->
            [st EXCEPT !.map_delete_insert = map_insert(@, op.key, None)]
      [] op.type = "Put" ->
            [st EXCEPT !.map_delete_insert = map_insert(@, op.key, Some(op.value))]
      [] op.type = "DeletePrefix" ->
            LET key_prefix_list ==
                    set_range(st.set_key_prefix, get_interval(op.key_prefix))
            IN  [st EXCEPT !.set_key_prefix =
                    set_insert(set_remove_list(@, key_prefix_list), op.key_prefix)]

\* A simplify_step whose Put and Delete keep the entry a key already has
\* (entry(key).or_insert(val) in the place of insert(key, val)).
simplify_step_first_wins(st, op) ==
    IF /\ op.type \in {"Delete", "Put"}
       /\ \E i \in 1..Len(st.map_delete_insert) : st.map_delete_insert[i][1] = op.key
    THEN st
    ELSE simplify_step_keep_points(
            [st EXCEPT !.map_delete_insert =
                IF op.type = "DeletePrefix"
                THEN map_remove_list(@, map_range_keys(@, get_interval(op.key_prefix)))
                ELSE @],
            op)

\* One iteration of the loop of simplify over self.operations.
simplify_step(st, op) ==
    CASE op.type = "Delete" ->
            [st EXCEPT !.map_delete_insert = map_insert(@, op.key, None)]
      [] op.type = "Put" ->
            [st EXCEPT !.map_delete_insert = map_insert(@, op.key, Some(op.value))]
      [] op.type = "DeletePrefix" ->
            LET key_list ==
                    map_range_keys(st.map_delete_insert, get_interval(op.key_prefix))
                key_prefix_list ==
                    set_range(st.set_key_prefix, get_interval(op.key_prefix))
            IN  [map_delete_insert |->
                    map_remove_list(st.map_delete_insert, key_list),
                 set_key_prefix |->
                    set_insert(set_remove_list(st.set_key_prefix, key_prefix_list),
                               op.key_prefix)]

RECURSIVE simplify_loop(_, _)
simplify_loop(st, ops) ==
    IF ops = <<>>
    THEN st
    ELSE simplify_loop(simplify_step(st, Head(ops)), Tail(ops))

\* A render that turns an entry without a value into a Put of the empty
\* value (val.unwrap_or_default()).
render_put_default(entry) ==
    IF entry[2] = None
    THEN Put(entry[1], <<>>)
    ELSE Put(entry[1], entry[2][1])

\* One entry of map_delete_insert rendered back to a Put or a Delete.
render(entry) ==
    IF entry[2] = None
    THEN Delete(entry[1])
    ELSE Put(entry[1], entry[2][1])

\* An emission that puts the point operations first.
simplify_emit_points_first(st) ==
    [i \in 1..Len(st.map_delete_insert) |-> render(st.map_delete_insert[i])]
        \o [i \in 1..Len(st.set_key_prefix) |-> DeletePrefix(st.set_key_prefix[i])]

\* The emission of simplify: the prefix deletes, then the point operations.
simplify_emit(st) ==
    [i \in 1..Len(st.set_key_prefix) |-> DeletePrefix(st.set_key_prefix[i])]
        \o [i \in 1..Len(st.map_delete_insert) |-> render(st.map_delete_insert[i])]

\* Batch::simplify
simplify(ops) ==
    simplify_emit(simplify_loop([map_delete_insert |-> <<>>, set_key_prefix |-> <<>>], ops))

\* ------------------------------------------------------------- the store

\* An ApplyOp whose Put appends to the value the key holds.
ApplyOp_put_appends(store, op) ==
    CASE op.type = "Delete" ->
            [k \in (DOMAIN store) \ {op.key} |-> store[k]]
      [] op.type = "Put" ->
            [k \in (DOMAIN store) \cup {op.key} |->
                IF k # op.key
                THEN store[k]
                ELSE IF k \in DOMAIN store THEN store[k] \o op.value ELSE op.value]
      [] op.type = "DeletePrefix" ->
            [k \in {x \in DOMAIN store : ~StartsWith(x, op.key_prefix)} |-> store[k]]

\* The effect of one WriteOperation on a store (a map from keys to values).
ApplyOp(store, op) ==
    CASE op.type = "Delete" ->
            [k \in (DOMAIN store) \ {op.key} |-> store[k]]
      [] op.type = "Put" ->
            [k \in (DOMAIN store) \cup {op.key} |->
                IF k = op.key THEN op.value ELSE store[k]]
      [] op.type = "DeletePrefix" ->
            [k \in {x \in DOMAIN store : ~StartsWith(x, op.key_prefix)} |-> store[k]]

\* The operations of a batch applied one by one, in order.
RECURSIVE ApplyBatch(_, _)
ApplyBatch(store, ops) ==
    IF ops = <<>>
    THEN store
    ELSE ApplyBatch(ApplyOp(store, Head(ops)), Tail(ops))

\* ------------------------------------------------------------- the state

VARIABLES
    operations,     \* Batch::operations of the batch at hand
    consumed,       \* the operations of the batch the last simplify consumed
    passes,         \* how many times simplify was applied to the batch
    key_prefix,     \* the argument of a call of get_interval
    interval,       \* what that call returned (NoInterval before it returns)
    context,        \* a ContextFromDb: its base_key and extra
    child,          \* the context clone_with_base_key returned, if any
    db,             \* what the database behind the contexts' db handle holds
    written,        \* what db held before each write_batch that succeeded
    call,           \* the last call on a context: its arguments and outcome
    built           \* the outcome of Batch::build (NotBuilt before it returns)

vars == <<operations, consumed, passes, key_prefix, interval,
          context, child, db, written, call, built>>

\* What the batch operations and get_interval leave alone.
ctx_vars == <<context, child, db, written, call, built>>

NoInterval == [lower |-> Unbounded, upper |-> Unbounded]

\* struct ContextFromDb (every context holds a handle to the one database, db).
ContextFromDb(base_key, extra) == [base_key |-> base_key, extra |-> extra]

NoCall == [fn |-> "none"]
NotBuilt == [kind |-> "Pending"]

\* A context at the root of an empty database, nothing called yet.
InitCtx ==
    /\ context = ContextFromDb(<<>>, "extra")
    /\ child = <<>>
    /\ db = <<>>
    /\ written = <<>>
    /\ call = NoCall
    /\ built = NotBuilt

Init ==
    /\ operations = <<>>
    /\ consumed = <<>>
    /\ passes = 0
    /\ key_prefix = <<>>
    /\ interval = NoInterval
    /\ InitCtx

IsNestedOp(op) ==
    \/ op.type = "DeletePrefix" /\ op.key_prefix \in NestedKeys
    \/ op.type = "Put" /\ op.key \in NestedKeys /\ op.value = NestedValue

\* The bound on the batches built.
CanPush(op) ==
    /\ passes = 0
    /\ built = NotBuilt
    /\ \/ Len(operations) < MaxOps
       \/ /\ Len(operations) < MaxNestedOps
          /\ IsNestedOp(op)
          /\ \A i \in 1..Len(operations) : IsNestedOp(operations[i])

put_key_value_bytes ==
    \E key \in Keys, value \in Values :
        /\ CanPush(Put(key, value))
        /\ operations' = Append(operations, Put(key, value))
        /\ UNCHANGED <<consumed, passes, key_prefix, interval, ctx_vars>>

delete_key ==
    \E key \in Keys :
        /\ CanPush(Delete(key))
        /\ operations' = Append(operations, Delete(key))
        /\ UNCHANGED <<consumed, passes, key_prefix, interval, ctx_vars>>

delete_key_prefix ==
    \E prefix \in Keys :
        /\ CanPush(DeletePrefix(prefix))
        /\ operations' = Append(operations, DeletePrefix(prefix))
        /\ UNCHANGED <<consumed, passes, key_prefix, interval, ctx_vars>>

Simplify ==
    /\ passes < MaxPasses
    /\ consumed' = operations
    /\ operations' = simplify(operations)
    /\ passes' = passes + 1
    /\ UNCHANGED <<key_prefix, interval, ctx_vars>>

Next ==
    \/ put_key_value_bytes
    \/ delete_key
    \/ delete_key_prefix
    \/ Simplify

Spec == Init /\ [][Next]_vars

\* ------------------------------------------------------------ Batch::build

\* Result<T, E>
Ok(value) == [kind |-> "Ok", value |-> value]
Err(error) == [kind |-> "Err", error |-> error]

\* The errors a builder callback may return.
ViewErrors == {"ViewError::Io", "ViewError::NotFound"}

\* A build that returns the batch whatever the callback returned.
build_ignore_error(batch, builder_result) == Ok(batch)

\* Batch::build once the callback has returned builder_result, having
\* appended to batch (the ? operator returns the callback's error).
build(batch, builder_result) ==
    IF builder_result.kind = "Err"
    THEN Err(builder_result.error)
    ELSE Ok(batch)

\* The callback of Batch::build returns, after the appends it made to the
\* batch build handed it, and build returns: the local batch is moved into
\* the result or dropped.
builder_returns ==
    \E builder_result \in {Ok(<<>>)} \cup {Err(e) : e \in ViewErrors} :
        /\ passes = 0
        /\ built = NotBuilt
        /\ call' = [fn |-> "builder", appended |-> operations, result |-> builder_result]
        /\ built' = build(operations, builder_result)
        /\ operations' = <<>>
        /\ UNCHANGED <<consumed, passes, key_prefix, interval, context, child, db, written>>

NextBuild ==
    \/ put_key_value_bytes
    \/ delete_key
    \/ delete_key_prefix
    \/ builder_returns

SpecBuild == Init /\ [][NextBuild]_vars

\* ------------------------------------------------- ContextFromDb: the keys

\* Base keys of the context, tags, raw indices and typed indices.
BaseKeys == {<<>>, <<1>>, <<1, 5>>, <<255>>}
Tags == {0, 5, 255}
IndexBytes == {<<>>, <<5>>, <<171>>, <<0, 255>>}
Indices ==
    {[type |-> "unit"], [type |-> "f32"],
     [type |-> "u8", value |-> 0], [type |-> "u8", value |-> 5],
     [type |-> "u16", value |-> 261],
     [type |-> "bytes", value |-> <<>>], [type |-> "bytes", value |-> <<5, 0>>]}

\* Vec::extend_from_slice
extend_from_slice(key, slice) == key \o slice

\* bcs::serialize_into(&mut key, index): the encoding of the index is
\* appended to key. The unit value has no bytes, a u8 one byte, a u16 two
\* bytes (little endian), a byte string its length and its bytes; a float is
\* not supported.
serialize_into(key, index) ==
    CASE index.type = "unit" -> Ok(key)
      [] index.type = "u8" -> Ok(extend_from_slice(key, <<index.value>>))
      [] index.type = "u16" ->
            Ok(extend_from_slice(key, <<index.value % 256, index.value \div 256>>))
      [] index.type = "bytes" ->
            Ok(extend_from_slice(extend_from_slice(key, <<Len(index.value)>>), index.value))
      [] OTHER -> Err("bcs::Error::NotSupported")

\* A failed assert!.
Panic(message) == [kind |-> "Panic", message |-> message]

base_tag(self, tag) == extend_from_slice(self.base_key, <<tag>>)

\* A base_tag_index that appends the tag after the index.
base_tag_index_tag_last(self, tag, index) ==
    extend_from_slice(extend_from_slice(self.base_key, index), <<tag>>)

\* A base_tag_index that leaves the tag out.
base_tag_index_no_tag(self, tag, index) ==
    extend_from_slice(self.base_key, index)

base_tag_index(self, tag, index) ==
    extend_from_slice(extend_from_slice(self.base_key, <<tag>>), index)

\* A derive_key without its assert!.
derive_key_no_assert(self, index) ==
    serialize_into(self.base_key, index)

derive_key(self, index) ==
    LET key == serialize_into(self.base_key, index)
    IN  IF key.kind = "Err"
        THEN key
        ELSE IF Len(key.value) > Len(self.base_key)
             THEN key
             ELSE Panic("Empty indices are not allowed")

derive_tag_key(self, tag, index) ==
    serialize_into(extend_from_slice(self.base_key, <<tag>>), index)

derive_short_key(self, index) == serialize_into(<<>>, index)

\* A derive_key_bytes that starts from an empty key, as derive_short_key does.
derive_key_bytes_short(self, index) == extend_from_slice(<<>>, index)

derive_key_bytes(self, index) == extend_from_slice(self.base_key, index)

clone_with_base_key(self, base_key) == ContextFromDb(base_key, self.extra)

\* The contexts there are to call a method on: the context and its child.
Selves == {context} \cup {child[i] : i \in 1..Len(child)}

\* The base keys a child is made with: a tagged sub-base of the context, a
\* longer key under it, and a key outside of it.
NewBaseKeys ==
    {base_tag(context, tag) : tag \in Tags}
        \cup {base_tag_index(context, 5, <<0>>), <<9>>}

InitContext ==
    /\ operations = <<>>
    /\ consumed = <<>>
    /\ passes = 0
    /\ key_prefix = <<>>
    /\ interval = NoInterval
    /\ context \in {ContextFromDb(base_key, "extra") : base_key \in BaseKeys}
    /\ child = <<>>
    /\ db = <<>>
    /\ written = <<>>
    /\ call = NoCall
    /\ built = NotBuilt

\* What a call of a key-derivation method leaves alone.
UnchangedByKeys ==
    UNCHANGED <<operations, consumed, passes, key_prefix, interval,
                context, child, db, written, built>>

call_base_tag ==
    \E self \in Selves, tag \in Tags :
        /\ call' = [fn |-> "base_tag", self |-> self, tag |-> tag,
                    result |-> base_tag(self, tag)]
        /\ UnchangedByKeys

call_base_tag_index ==
    \E self \in Selves, tag \in Tags, index \in IndexBytes :
        /\ call' = [fn |-> "base_tag_index", self |-> self, tag |-> tag,
                    index |-> index, result |-> base_tag_index(self, tag, index)]
        /\ UnchangedByKeys

call_derive_key ==
    \E self \in Selves, index \in Indices :
        /\ call' = [fn |-> "derive_key", self |-> self, index |-> index,
                    result |-> derive_key(self, index)]
        /\ UnchangedByKeys

call_derive_tag_key ==
    \E self \in Selves, tag \in Tags, index \in Indices :
        /\ call' = [fn |-> "derive_tag_key", self |-> self, tag |-> tag,
                    index |-> index, result |-> derive_tag_key(self, tag, index)]
        /\ UnchangedByKeys

call_derive_short_key ==
    \E self \in Selves, index \in Indices :
        /\ call' = [fn |-> "derive_short_key", self |-> self, index |-> index,
                    result |-> derive_short_key(self, index)]
        /\ UnchangedByKeys

call_derive_key_bytes ==
    \E self \in Selves, index \in IndexBytes :
        /\ call' = [fn |-> "derive_key_bytes", self |-> self, index |-> index,
                    result |-> derive_key_bytes(self, index)]
        /\ UnchangedByKeys

\* clone_with_base_key takes &self: the context it is called on stays.
call_clone_with_base_key ==
    \E base_key \in NewBaseKeys :
        /\ child = <<>>
        /\ child' = <<clone_with_base_key(context, base_key)>>
        /\ call' = [fn |-> "clone_with_base_key", self |-> context,
                    base_key |-> base_key,
                    result |-> clone_with_base_key(context, base_key)]
        /\ UNCHANGED <<operations, consumed, passes, key_prefix, interval,
                       context, db, written, built>>

NextContext ==
    \/ call_base_tag
    \/ call_base_tag_index
    \/ call_derive_key
    \/ call_derive_tag_key
    \/ call_derive_short_key
    \/ call_derive_key_bytes
    \/ call_clone_with_base_key

SpecContext == InitContext /\ [][NextContext]_vars

\* --------------------------------------------- ContextFromDb: reads, writes

\* Longest batch handed to write_batch.
MaxStoreOps == 2

\* The operations of those batches, the keys read and the prefixes scanned.
StoreOps ==
    {Put(key, NestedValue) : key \in NestedKeys}
        \cup {Delete(key) : key \in NestedKeys}
        \cup {DeletePrefix(key) : key \in NestedKeys}
StoreBatches == UNION {[1..n -> StoreOps] : n \in 0..MaxStoreOps}
ReadKeys == {<<1>>, <<1, 255, 0>>}

\* The database behind the db handle (trait KeyValueOperations): a map from
\* keys to values, held as a function.

\* The keys of a set in ascending order.
RECURSIVE sorted(_)
sorted(keys) ==
    IF keys = {}
    THEN <<>>
    ELSE LET key == CHOOSE k \in keys : TRUE
         IN  set_insert(sorted(keys \ {key}), key)

\* KeyValueOperations::read_key_bytes
db_read_key_bytes(map, key) ==
    IF key \in DOMAIN map THEN Some(map[key]) ELSE None

\* KeyValueOperations::find_keys_by_prefix: the keys matching the prefix, in
\* ascending order; the prefix is not included in the returned keys.
db_find_keys_by_prefix(map, prefix) ==
    LET found == sorted({k \in DOMAIN map : InRange(k, get_interval(prefix))})
    IN  [i \in 1..Len(found) |-> SubSeq(found[i], Len(prefix) + 1, Len(found[i]))]

\* KeyValueOperations::find_key_values_by_prefix
db_find_key_values_by_prefix(map, prefix) ==
    LET found == sorted({k \in DOMAIN map : InRange(k, get_interval(prefix))})
    IN  [i \in 1..Len(found) |->
            <<SubSeq(found[i], Len(prefix) + 1, Len(found[i])), map[found[i]]>>]

\* bcs::from_bytes::<u8>: one byte, no more and no less.
from_bytes(bytes) ==
    IF Len(bytes) = 1 THEN Ok(bytes[1]) ELSE Err("bcs::Error")

\* KeyValueOperations::read_key (the provided method), for values of type u8.
db_read_key(map, key) ==
    LET bytes == db_read_key_bytes(map, key)
    IN  IF bytes = None
        THEN Ok(None)
        ELSE LET value == from_bytes(bytes[1])
             IN  IF value.kind = "Err" THEN value ELSE Ok(Some(value.value))

\* What a call of the database may do: fail and leave the database as it
\* was, or succeed (a write is atomic).
db_outcomes(map, db_call) ==
    {[result |-> Err("DB::Error"), db |-> map]} \cup
    {CASE db_call.fn = "read_key" ->
            [result |-> db_read_key(map, db_call.arg), db |-> map]
       [] db_call.fn = "read_key_bytes" ->
            [result |-> Ok(db_read_key_bytes(map, db_call.arg)), db |-> map]
       [] db_call.fn = "find_keys_by_prefix" ->
            [result |-> Ok(db_find_keys_by_prefix(map, db_call.arg)), db |-> map]
       [] db_call.fn = "find_key_values_by_prefix" ->
            [result |-> Ok(db_find_key_values_by_prefix(map, db_call.arg)), db |-> map]
       [] db_call.fn = "write_batch" ->
            [result |-> Ok(<<>>), db |-> ApplyBatch(map, db_call.arg)]}

\* A context that prefixes what it hands to the database with its base_key.
delegate_prefixed(self, fn, arg) ==
    [fn |-> fn,
     arg |-> IF fn = "write_batch" THEN arg ELSE derive_key_bytes(self, arg)]

\* The call a method of ContextFromDb makes on self.db: the method of the
\* same name, with the argument the caller supplied.
delegate(self, fn, arg) == [fn |-> fn, arg |-> arg]

\* What the method returns, given what the database returned: write_batch
\* returns the error (the ? operator) or Ok(()), the others the result.
returned(fn, db_result) ==
    IF fn = "write_batch"
    THEN IF db_result.kind = "Err" THEN Err(db_result.error) ELSE Ok(<<>>)
    ELSE db_result

\* A method of ContextFromDb that reads or writes is called on the context.
call_io(fn, arg) ==
    \E outcome \in db_outcomes(db, delegate(context, fn, arg)) :
        /\ call' = [fn |-> fn, self |-> context, arg |-> arg,
                    db_call |-> delegate(context, fn, arg),
                    db_before |-> db,
                    db_result |-> outcome.result,
                    result |-> returned(fn, outcome.result)]
        /\ db' = outcome.db
        /\ written' = IF fn = "write_batch" /\ outcome.result.kind = "Ok"
                      THEN Append(written, db)
                      ELSE written
        /\ UNCHANGED <<operations, consumed, passes, key_prefix, interval,
                       context, child, built>>

\* The bound on the reads: one read, of the database as it is found or as
\* the first write of the simplified batch leaves it.
CanRead ==
    /\ passes = 1
    /\ Len(written) <= 1
    /\ call.fn \in {"none", "write_batch"}

call_read_key ==
    \E key \in ReadKeys : CanRead /\ call_io("read_key", key)

call_read_key_bytes ==
    \E key \in ReadKeys : CanRead /\ call_io("read_key_bytes", key)

call_find_keys_by_prefix ==
    \E prefix \in Keys : CanRead /\ call_io("find_keys_by_prefix", prefix)

call_find_key_values_by_prefix ==
    \E prefix \in NestedKeys :
        CanRead /\ call_io("find_key_values_by_prefix", prefix)

\* The simplified batch is written, twice at most.
call_write_batch ==
    /\ passes = 1
    /\ Len(written) < 2
    /\ call_io("write_batch", operations)

InitStore ==
    /\ operations \in StoreBatches
    /\ consumed = <<>>
    /\ passes = 0
    /\ key_prefix = <<>>
    /\ interval = NoInterval
    /\ context \in {ContextFromDb(<<>>, "extra"), ContextFromDb(<<1>>, "extra")}
    /\ child = <<>>
    /\ db \in {[k \in present |-> OldValue] :
                    present \in {{}, {<<1>>, <<1, 255, 0>>, <<255, 255>>},
                                  Keys \cup {<<1, 255, 0>>}}}
    /\ written = <<>>
    /\ call = NoCall
    /\ built = NotBuilt

NextStore ==
    \/ Simplify
    \/ call_read_key
    \/ call_read_key_bytes
    \/ call_find_keys_by_prefix
    \/ call_find_key_values_by_prefix
    \/ call_write_batch

SpecStore == InitStore /\ [][NextStore]_vars

\* ------------------------------------------- the prefix interval on its own

\* Longest prefix handed to get_interval; keys are one byte longer at most.
MaxPrefixLen == 3

PrefixBytes == {0, 5, 254, 255}
KeyBytes == {0, 5, 6, 254, 255}

BoundPrefixes == UNION {[1..n -> PrefixBytes] : n \in 0..MaxPrefixLen}
BoundKeys == UNION {[1..n -> KeyBytes] : n \in 0..(MaxPrefixLen + 1)}

InitBound ==
    /\ operations = <<>>
    /\ consumed = <<>>
    /\ passes = 0
    /\ key_prefix \in BoundPrefixes
    /\ interval = NoInterval
    /\ InitCtx

GetInterval ==
    /\ interval = NoInterval
    /\ interval' = get_interval(key_prefix)
    /\ UNCHANGED <<operations, consumed, passes, key_prefix, ctx_vars>>

NextBound == GetInterval

SpecBound == InitBound /\ [][NextBound]_vars

\* ----------------------------------------------------------------- claims

\* Whether an operation is a Put or a Delete, and the byte string it names.
IsPoint(op) == op.type \in {"Put", "Delete"}
IsPrefix(op) == op.type = "DeletePrefix"
NameOf(op) == IF IsPrefix(op) THEN op.key_prefix ELSE op.key

\* The keys of a store: the keys the operations name and, under each of the
\* longest ones, a longer key that no operation names.
StoreKeys == Keys \cup {<<1, 1, 0>>, <<1, 255, 0>>, <<255, 255, 0>>}

\* The prior stores: each key absent, or holding a value no batch writes.
PriorStores == {[k \in present |-> OldValue] : present \in SUBSET StoreKeys}

\* Four of them: the empty store, the full store, and the stores holding the
\* keys of even length and of odd length.
SampleStores ==
    {[k \in present |-> OldValue] :
        present \in {{}, StoreKeys,
                      {k \in StoreKeys : Len(k) % 2 = 0},
                      {k \in StoreKeys : Len(k) % 2 = 1}}}

\* A sequence without its i-th element.
RemoveAt(seq, i) == SubSeq(seq, 1, i - 1) \o SubSeq(seq, i + 1, Len(seq))

\* C2: for every prefix p and key k, k starts with p iff k lies in
\* [p, get_upper_bound(p)), Unbounded meaning no upper limit; and
\* get_upper_bound([5,255]) = Excluded([6]), get_upper_bound([255,255]) =
\* Unbounded, get_upper_bound([]) = Unbounded.
C2_PrefixIffInInterval ==
    interval # NoInterval =>
        /\ interval.lower = Included(key_prefix)
        /\ \A k \in BoundKeys : StartsWith(k, key_prefix) <=> InRange(k, interval)
        /\ key_prefix = <<5, 255>> => interval.upper = Excluded(<<6>>)
        /\ key_prefix = <<255, 255>> => interval.upper = Unbounded
        /\ key_prefix = <<>> => interval.upper = Unbounded

C2_Witness ==
    /\ key_prefix = <<5, 255>>
    /\ interval = [lower |-> Included(<<5, 255>>), upper |-> Excluded(<<6>>)]

\* C1: applying the operations of simplify(batch) in their emitted order to
\* any prior store yields the same store as applying the operations of the
\* batch one by one in append order.
\* (Checked on every prior store for the batches of at most two operations,
\* and on the stores of SampleStores for every batch.)
C1_SameEffect ==
    passes = 1 =>
        \A store \in (IF Len(consumed) <= 2 THEN PriorStores ELSE SampleStores) :
            ApplyBatch(store, operations) = ApplyBatch(store, consumed)

\* Three nested prefix deletes, the shortest first, with a Put between each
\* two of them, simplified.
C1_Witness ==
    /\ passes = 1
    /\ Len(consumed) = 5
    /\ IsPrefix(consumed[1]) /\ IsPrefix(consumed[3]) /\ IsPrefix(consumed[5])
    /\ consumed[2].type = "Put" /\ consumed[4].type = "Put"
    /\ consumed[1].key_prefix = <<>>
    /\ consumed[3].key_prefix = <<1>>
    /\ consumed[5].key_prefix = <<1, 255>>
    /\ consumed[2].key = <<1, 255>>
    /\ consumed[4].key = <<1>>
    /\ operations = <<DeletePrefix(<<>>), DeletePrefix(<<1>>), DeletePrefix(<<1, 255>>),
                      Put(<<1>>, NestedValue)>>

\* C3: in the output of simplify every DeletePrefix comes before every Put
\* or Delete, the DeletePrefix operations are in strictly ascending order of
\* prefix and the Put/Delete operations in strictly ascending order of key.
C3_PrefixesFirstSorted ==
    passes >= 1 =>
        \A i, j \in 1..Len(operations) :
            i < j =>
                /\ IsPrefix(operations[j]) => IsPrefix(operations[i])
                /\ IsPrefix(operations[i]) = IsPrefix(operations[j]) =>
                        LexLess(NameOf(operations[i]), NameOf(operations[j]))

\* An output with two prefix deletes and two point operations, from a batch
\* that appended them in another order.
C3_Witness ==
    /\ passes = 1
    /\ consumed = <<Put(<<255>>, <<7>>), DeletePrefix(<<1, 255>>), Delete(<<>>)>>
    /\ operations = <<DeletePrefix(<<1, 255>>), Delete(<<>>), Put(<<255>>, <<7>>)>>

\* C4: simplify is idempotent: simplify applied to its own output returns
\* the same operations in the same order.
C4_Idempotent ==
    passes >= 2 => operations = consumed

\* The second simplify of a batch that holds nested prefix deletes and a
\* point operation under them.
C4_Witness ==
    /\ passes = 2
    /\ operations = <<DeletePrefix(<<1>>), DeletePrefix(<<1, 255>>), Put(<<1, 255>>, <<7>>)>>

\* C5 (as stated): no two operations of the output of simplify name the same
\* byte string, whether as the key of a Put, the key of a Delete or the
\* prefix of a DeletePrefix.
C5_OnePerByteString ==
    passes >= 1 =>
        \A i, j \in 1..Len(operations) :
            i # j => NameOf(operations[i]) # NameOf(operations[j])

\* C5 (amended): no two Put/Delete operations of the output of simplify name
\* the same key and no two DeletePrefix operations name the same prefix; a
\* DeletePrefix and one Put or Delete may name the same byte string.
C5_OnePerKeyAndPrefix ==
    passes >= 1 =>
        \A i, j \in 1..Len(operations) :
            (i # j /\ IsPrefix(operations[i]) = IsPrefix(operations[j]))
                => NameOf(operations[i]) # NameOf(operations[j])

\* A batch that names one byte string three times: the Put before the prefix
\* delete is gone, the Delete after it is kept beside the prefix delete.
C5_Witness ==
    /\ passes = 1
    /\ consumed = <<Put(<<1>>, <<7>>), DeletePrefix(<<1>>), Delete(<<1>>)>>
    /\ operations = <<DeletePrefix(<<1>>), Delete(<<1>>)>>

\* C6: the output of simplify contains no two DeletePrefix operations such
\* that the prefix of one is a prefix of the prefix of the other, whatever
\* the order in which the prefix deletes were appended.
C6_PrefixesNotNested ==
    passes >= 1 =>
        \A i, j \in 1..Len(operations) :
            (i # j /\ IsPrefix(operations[i]) /\ IsPrefix(operations[j]))
                => ~StartsWith(operations[j].key_prefix, operations[i].key_prefix)

\* C7: no operation can be removed from the output of simplify without
\* changing its effect on some prior store.
C7_NoOperationRemovable ==
    passes >= 1 =>
        \A i \in 1..Len(operations) :
            \E store \in PriorStores :
                ApplyBatch(store, RemoveAt(operations, i)) # ApplyBatch(store, operations)

\* C8: for a batch made only of Put and Delete operations, the output of
\* simplify holds exactly one operation per distinct key of the batch, the
\* last one appended for that key (with its value when it is a Put); and
\* simplify([Put(k,v1), Put(k,v2)]) = [Put(k,v2)].
C8_LastWriteWins ==
    (passes = 1 /\ \A i \in 1..Len(consumed) : IsPoint(consumed[i])) =>
        /\ \A i \in 1..Len(consumed) :
                (\A j \in (i + 1)..Len(consumed) : consumed[j].key # consumed[i].key)
                    => \E m \in 1..Len(operations) : operations[m] = consumed[i]
        /\ \A m \in 1..Len(operations) :
                \E i \in 1..Len(consumed) :
                    /\ consumed[i] = operations[m]
                    /\ \A j \in (i + 1)..Len(consumed) : consumed[j].key # consumed[i].key
        /\ \A m, n \in 1..Len(operations) :
                m # n => operations[m].key # operations[n].key
        /\ (/\ Len(consumed) = 2
            /\ consumed[1].type = "Put" /\ consumed[2].type = "Put"
            /\ consumed[1].key = consumed[2].key) => operations = <<consumed[2]>>

C8_Witness ==
    /\ passes = 1
    /\ consumed = <<Put(<<1>>, <<7>>), Put(<<1>>, <<>>)>>
    /\ operations = <<Put(<<1>>, <<>>)>>

\* C9: if a DeletePrefix(p) is appended after the last Put/Delete on a key k
\* that has p as a prefix, the output of simplify contains no Put or Delete
\* on k; and simplify([Put(k,v), DeletePrefix(p)]) = [DeletePrefix(p)] when k
\* lies under p.
C9_LaterPrefixAbsorbs ==
    passes = 1 =>
        /\ \A j \in 1..Len(consumed), k \in Keys :
                (/\ IsPrefix(consumed[j])
                 /\ StartsWith(k, consumed[j].key_prefix)
                 /\ \A i \in (j + 1)..Len(consumed) :
                        ~(IsPoint(consumed[i]) /\ consumed[i].key = k))
                    => \A m \in 1..Len(operations) :
                            ~(IsPoint(operations[m]) /\ operations[m].key = k)
        /\ (/\ Len(consumed) = 2
            /\ consumed[1].type = "Put" /\ IsPrefix(consumed[2])
            /\ StartsWith(consumed[1].key, consumed[2].key_prefix))
                => operations = <<consumed[2]>>

\* A Put absorbed by a later delete of an all-0xFF prefix.
C9_Witness ==
    /\ passes = 1
    /\ consumed = <<Put(<<255, 255>>, <<7>>), DeletePrefix(<<255>>)>>
    /\ operations = <<DeletePrefix(<<255>>)>>

\* C10: if the last Put/Delete on a key k is appended after every
\* DeletePrefix whose prefix is a prefix of k, that operation appears in the
\* output of simplify, after every DeletePrefix of the output; and
\* simplify([DeletePrefix(p), Put(k,v)]) = [DeletePrefix(p), Put(k,v)] when k
\* lies under p.
C10_LaterPointSurvives ==
    passes = 1 =>
        /\ \A i \in 1..Len(consumed) :
                (/\ IsPoint(consumed[i])
                 /\ \A j \in (i + 1)..Len(consumed) :
                        /\ ~(IsPoint(consumed[j]) /\ consumed[j].key = consumed[i].key)
                        /\ ~(/\ IsPrefix(consumed[j])
                             /\ StartsWith(consumed[i].key, consumed[j].key_prefix)))
                    => \E m \in 1..Len(operations) :
                            /\ operations[m] = consumed[i]
                            /\ \A n \in 1..Len(operations) :
                                    IsPrefix(operations[n]) => n < m
        /\ (/\ Len(consumed) = 2
            /\ IsPrefix(consumed[1]) /\ consumed[2].type = "Put"
            /\ StartsWith(consumed[2].key, consumed[1].key_prefix))
                => operations = consumed

C10_Witness ==
    /\ passes = 1
    /\ consumed = <<DeletePrefix(<<1>>), Put(<<1, 255>>, <<7>>)>>
    /\ operations = <<DeletePrefix(<<1>>), Put(<<1, 255>>, <<7>>)>>

\* C18: each operation of the output of simplify is equal (same kind, same
\* key or prefix, same value) to some operation of the input, and the output
\* has no more operations than the input.
C18_OnlySelects ==
    passes >= 1 =>
        /\ \A m \in 1..Len(operations) :
                \E i \in 1..Len(consumed) : consumed[i] = operations[m]
        /\ Len(operations) <= Len(consumed)

\* A batch whose Delete is overwritten by a Put: two of its three operations
\* are selected.
C18_Witness ==
    /\ passes = 1
    /\ consumed = <<Delete(<<1>>), Put(<<1>>, <<7>>), DeletePrefix(<<255>>)>>
    /\ operations = <<DeletePrefix(<<255>>), Put(<<1>>, <<7>>)>>

\* C15: if the builder callback returns an error after appending any number
\* of operations, build returns that error and no batch; if the callback
\* succeeds, build returns a batch holding exactly the operations the
\* callback appended, in append order.
C15_BuildAllOrNothing ==
    call.fn = "builder" =>
        /\ call.result.kind = "Err" => built = Err(call.result.error)
        /\ call.result.kind = "Ok" => built = Ok(call.appended)

\* The callback fails after appending two operations.
C15_Witness ==
    /\ call.fn = "builder"
    /\ call.appended = <<Put(<<1>>, <<7>>), DeletePrefix(<<>>)>>
    /\ call.result = Err("ViewError::Io")
    /\ built = Err("ViewError::Io")

\* The keys the last call returned: none when it failed or panicked.
ReturnedKeys ==
    CASE call.fn \in {"base_tag", "base_tag_index", "derive_key_bytes"} ->
            {call.result}
      [] call.fn \in {"derive_key", "derive_tag_key", "derive_short_key"} ->
            IF call.result.kind = "Ok" THEN {call.result.value} ELSE {}
      [] OTHER -> {}

\* C13: for any base_key, an index whose encoding is zero bytes makes
\* derive_key abort with a fatal assertion (not a recoverable Err), and every
\* key derive_key returns is base_key followed by the non-empty encoding of
\* the index, hence strictly longer than base_key.
C13_DeriveKeyNeverBaseKey ==
    call.fn = "derive_key" =>
        LET encoding == serialize_into(<<>>, call.index)
        IN  /\ (encoding.kind = "Ok" /\ encoding.value = <<>>)
                    => call.result.kind = "Panic"
            /\ call.result.kind = "Ok" =>
                    /\ encoding.kind = "Ok"
                    /\ encoding.value # <<>>
                    /\ call.result.value = call.self.base_key \o encoding.value
                    /\ Len(call.result.value) > Len(call.self.base_key)
                    /\ call.result.value # call.self.base_key

\* derive_key of the unit index on a context with a non-empty base key.
C13_Witness ==
    /\ call.fn = "derive_key"
    /\ call.self.base_key = <<1, 5>>
    /\ call.index = [type |-> "unit"]
    /\ call.result.kind = "Panic"

\* C14: for one context and two different tags t1 and t2, no key produced by
\* base_tag(t1), base_tag_index(t1, _) or derive_tag_key(t1, _) starts with
\* base_tag(t2): it is outside the interval a prefix scan or a DeletePrefix
\* over base_tag(t2) covers.
C14_TagsDisjoint ==
    call.fn \in {"base_tag", "base_tag_index", "derive_tag_key"} =>
        \A key \in ReturnedKeys, t2 \in (0..u8_MAX) \ {call.tag} :
            /\ ~StartsWith(key, base_tag(call.self, t2))
            /\ ~InRange(key, get_interval(base_tag(call.self, t2)))

\* A key of the sub-namespace of tag 0 whose index starts with another tag.
C14_Witness ==
    /\ call.fn = "base_tag_index"
    /\ call.self.base_key = <<1>>
    /\ call.tag = 0
    /\ call.index = <<5>>
    /\ call.result = <<1, 0, 5>>

\* C17: base_tag_index(tag, index) is base_key followed by the single tag
\* byte followed by index, i.e. base_tag(tag) followed by index; base_key
\* [1], tag 5, index [0xAB] gives [1, 5, 0xAB].
C17_KeyLayout ==
    call.fn = "base_tag_index" =>
        LET n == Len(call.self.base_key)
        IN  /\ Len(call.result) = n + 1 + Len(call.index)
            /\ \A i \in 1..n : call.result[i] = call.self.base_key[i]
            /\ call.result[n + 1] = call.tag
            /\ \A i \in 1..Len(call.index) : call.result[n + 1 + i] = call.index[i]
            /\ call.result = base_tag(call.self, call.tag) \o call.index
            /\ (call.self.base_key = <<1>> /\ call.tag = 5 /\ call.index = <<171>>)
                    => call.result = <<1, 5, 171>>

C17_Witness ==
    /\ call.fn = "base_tag_index"
    /\ call.self.base_key = <<1>>
    /\ call.tag = 5
    /\ call.index = <<171>>
    /\ call.result = <<1, 5, 171>>

\* C19: for a child made by clone_with_base_key with a base key that starts
\* with the parent's base_key, every key the child produces with base_tag,
\* base_tag_index, derive_key, derive_tag_key or derive_key_bytes starts with
\* the parent's base_key, lies in the parent's prefix interval and is removed
\* by DeletePrefix(parent base_key); the child has the parent's extra, and
\* creating it leaves the parent's base_key and extra unchanged.
C19_ChildInsideParent ==
    /\ call.fn = "clone_with_base_key" =>
            /\ context = call.self
            /\ child = <<call.result>>
            /\ call.result.base_key = call.base_key
            /\ call.result.extra = context.extra
    /\ (/\ child # <<>>
        /\ call.fn \in {"base_tag", "base_tag_index", "derive_key",
                         "derive_tag_key", "derive_key_bytes"}
        /\ call.self = child[1]
        /\ StartsWith(child[1].base_key, context.base_key)) =>
            \A key \in ReturnedKeys :
                /\ StartsWith(key, context.base_key)
                /\ InRange(key, get_interval(context.base_key))
                /\ key \notin DOMAIN ApplyOp([k \in {key} |-> OldValue],
                                              DeletePrefix(context.base_key))

\* A child at a tagged sub-base of its parent derives a key from raw bytes.
C19_Witness ==
    /\ context.base_key = <<1, 5>>
    /\ child = <<ContextFromDb(<<1, 5, 255>>, "extra")>>
    /\ call.fn = "derive_key_bytes"
    /\ call.self = child[1]
    /\ call.result = <<1, 5, 255, 0, 255>>

\* The keys of the Put operations of a batch that start with a prefix, in
\* ascending order, each once.
PutKeysUnder(ops, prefix) ==
    sorted({ops[i].key : i \in {j \in 1..Len(ops) :
                ops[j].type = "Put" /\ StartsWith(ops[j].key, prefix)}})

\* The scan by prefix of an empty database to which simplify(b) was written.
ScannedAfterWrite ==
    /\ call.fn = "find_keys_by_prefix"
    /\ call.result.kind = "Ok"
    /\ passes = 1
    /\ Len(written) = 1
    /\ written[1] = <<>>

====
